---- MODULE Spec2Model ----
(***************************************************************************)
(* File-Janitor: scan a directory, plan one move per file into a bucket    *)
(* folder, execute the plan with collision-safe renames and an aggregate   *)
(* report.  Two pipelines live in the repository and both are modelled:    *)
(*   "fs_ops"  : src/src/fs_ops.cxx (collect_files, generate_plan,         *)
(*               execute_plan in one translation unit)                     *)
(*   "modular" : src/src/fs_ops/{scanner,planner,executor}/*.cxx           *)
(* The organizer, which classifies the files of a directory into named     *)
(* folders, is modelled after them, as src/src/main.cxx ("main") and as    *)
(* src/src/organization.cxx ("organization") implement it.                 *)
(* Strings are sequences of one-character strings, a path is a sequence of *)
(* components, the filesystem is a set of regular files and a set of       *)
(* directories.                                                            *)
(***************************************************************************)
EXTENDS Integers, Sequences, FiniteSets, TLC

(***************************************************************************)
(* Bounds of the model.                                                    *)
(***************************************************************************)
\* longest plan handed to the executor
MaxOps == 3
\* most entries the scanned root directory starts with
MaxEntries == 3

(***************************************************************************)
(* Characters and strings.                                                 *)
(***************************************************************************)
\* the printable characters in the order of their unsigned char values,
\* from the space (32) to the tilde (126); the double quote, the
\* backslash and the backquote, which no name of the model holds, are
\* written out as words
Ascii ==
  <<" ", "!", "dquote", "#", "$", "%", "&", "'", "(", ")", "*", "+", ",", "-", ".", "/",
    "0", "1", "2", "3", "4", "5", "6", "7", "8", "9", ":", ";", "<", "=", ">", "?",
    "@", "A", "B", "C", "D", "E", "F", "G", "H", "I", "J", "K", "L", "M", "N", "O",
    "P", "Q", "R", "S", "T", "U", "V", "W", "X", "Y", "Z", "[", "bslash", "]", "^", "_",
    "bquote", "a", "b", "c", "d", "e", "f", "g", "h", "i", "j", "k", "l", "m", "n", "o",
    "p", "q", "r", "s", "t", "u", "v", "w", "x", "y", "z", "{", "|", "}", "~">>

\* the unsigned char value of a character
Ord(c) == 31 + (CHOOSE k \in 1..Len(Ascii) : Ascii[k] = c)

\* std::tolower on one character: the uppercase letters are 32 below their
\* lowercase forms
ToLowerChar(c) == IF Ord(c) \in 65..90 THEN Ascii[Ord(c) + 1] ELSE c

\* the lowercase copy of a string
to_lowercase(s) == [k \in 1..Len(s) |-> ToLowerChar(s[k])]

\* std::string operator< : lexicographic on unsigned char values
RECURSIVE StrLess(_, _)
StrLess(a, b) ==
  IF b = <<>> THEN FALSE
  ELSE IF a = <<>> THEN TRUE
  ELSE IF Ord(a[1]) < Ord(b[1]) THEN TRUE
  ELSE IF Ord(a[1]) > Ord(b[1]) THEN FALSE
  ELSE StrLess(Tail(a), Tail(b))

\* std::string::substr(1)
Substr1(s) == SubSeq(s, 2, Len(s))

DigitChar == <<"0", "1", "2", "3", "4", "5", "6", "7", "8", "9">>

\* fmt's "{}" rendering of a non-negative int
RECURSIVE FormatInt(_)
FormatInt(n) ==
  IF n < 10 THEN <<DigitChar[n + 1]>>
  ELSE FormatInt(n \div 10) \o <<DigitChar[(n % 10) + 1]>>

(***************************************************************************)
(* std::filesystem::path decomposition.                                    *)
(***************************************************************************)
parent_path(p) == SubSeq(p, 1, Len(p) - 1)

filename(p) == IF p = <<>> THEN <<>> ELSE p[Len(p)]

\* position of the rightmost period of a file name, 0 when there is none
LastDot(name) ==
  LET ks == {k \in 1..Len(name) : name[k] = "."}
  IN  IF ks = {} THEN 0 ELSE CHOOSE k \in ks : \A j \in ks : j <= k

\* path::extension of a file name: from the rightmost period to the end,
\* empty for "." and "..", and empty when that period is the first character
NameExtension(name) ==
  LET k == LastDot(name)
  IN  IF name = <<".">> \/ name = <<".", ".">> \/ k <= 1 THEN <<>>
      ELSE SubSeq(name, k, Len(name))

\* path::stem of a file name: the file name without its extension
NameStem(name) == SubSeq(name, 1, Len(name) - Len(NameExtension(name)))

extension(p) == NameExtension(filename(p))

stem(p) == NameStem(filename(p))

has_extension(p) == extension(p) # <<>>

\* path operator/ with a relative one-component right operand; an empty
\* operand only adds a separator, which names the same entry
Join(p, c) == IF c = <<>> THEN p ELSE Append(p, c)

\* p is q or lies below q
IsUnder(p, q) == Len(q) <= Len(p) /\ SubSeq(p, 1, Len(q)) = q

\* every proper, non-empty prefix of a path
Ancestors(p) == {SubSeq(p, 1, k) : k \in 1..(Len(p) - 1)}

(***************************************************************************)
(* The filesystem: fs.files are the regular files, fs.dirs the             *)
(* directories.  denied holds the directories whose creation the system    *)
(* refuses, locked the entries whose rename it refuses.  A result carries  *)
(* the filesystem after the call and the error code, "" for success.       *)
(***************************************************************************)
VARIABLES variant, fs, denied, locked, pc, run, file_bin, error_bin, plan,
          idx, report, log, snap, raw_results, files_by_extension, folders

vars == <<variant, fs, denied, locked, pc, run, file_bin, error_bin, plan,
          idx, report, log, snap, raw_results, files_by_extension, folders>>

NoError == ""

\* safe_fs::exists
exists(f, p) == p \in f.files \/ p \in f.dirs

\* the entries of a directory tree, the directory itself excluded
Below(f, d) == {q \in f.files \cup f.dirs : q # d /\ IsUnder(q, d)}

\* mutant: an existing directory is reported as an error
create_directories_strict(f, p) ==
  LET chain   == Ancestors(p) \cup {p}
      missing == {q \in chain : q \notin f.dirs}
      refused == {q \in missing : q \in denied}
      first   == CHOOSE q \in refused : \A r \in refused : Len(q) <= Len(r)
  IN  IF p \in f.dirs THEN [fs |-> f, err |-> "EEXIST"]
      ELSE IF chain \cap f.files # {} THEN [fs |-> f, err |-> "ENOTDIR"]
      ELSE IF refused # {}
        THEN [fs  |-> [f EXCEPT !.dirs = @ \cup {q \in missing : Len(q) < Len(first)}],
              err |-> "EACCES"]
      ELSE [fs |-> [f EXCEPT !.dirs = @ \cup missing], err |-> NoError]

\* safe_fs::create_directories: an existing directory is a success, a
\* regular file in the way is an error, missing directories are created
\* from the top down until one of them is refused
create_directories(f, p) ==
  LET chain   == Ancestors(p) \cup {p}
      missing == {q \in chain : q \notin f.dirs}
      refused == {q \in missing : q \in denied}
      first   == CHOOSE q \in refused : \A r \in refused : Len(q) <= Len(r)
  IN  IF p \in f.dirs THEN [fs |-> f, err |-> NoError]
      ELSE IF chain \cap f.files # {} THEN [fs |-> f, err |-> "ENOTDIR"]
      ELSE IF refused # {}
        THEN [fs  |-> [f EXCEPT !.dirs = @ \cup {q \in missing : Len(q) < Len(first)}],
              err |-> "EACCES"]
      ELSE [fs |-> [f EXCEPT !.dirs = @ \cup missing], err |-> NoError]

\* the path an entry below from gets when from is renamed to to
Rebase(q, from, to) == to \o SubSeq(q, Len(from) + 1, Len(q))

\* safe_fs::rename with the semantics of std::filesystem::rename: a regular
\* file replaces an existing regular file, a directory replaces an empty
\* directory, the entries below a renamed directory move with it
rename(f, from, to) ==
  IF ~exists(f, from) THEN [fs |-> f, err |-> "ENOENT"]
  ELSE IF from \in locked THEN [fs |-> f, err |-> "EACCES"]
  ELSE IF parent_path(to) \notin f.dirs THEN [fs |-> f, err |-> "ENOENT"]
  ELSE IF from = to THEN [fs |-> f, err |-> NoError]
  ELSE IF from \in f.files
    THEN IF to \in f.dirs THEN [fs |-> f, err |-> "EISDIR"]
         ELSE [fs  |-> [f EXCEPT !.files = (@ \ {from}) \cup {to}],
               err |-> NoError]
  ELSE IF IsUnder(to, from) THEN [fs |-> f, err |-> "EINVAL"]
  ELSE IF to \in f.files THEN [fs |-> f, err |-> "ENOTDIR"]
  ELSE IF to \in f.dirs /\ Below(f, to) # {} THEN [fs |-> f, err |-> "ENOTEMPTY"]
  ELSE [fs  |-> [files |-> {IF IsUnder(q, from) THEN Rebase(q, from, to) ELSE q :
                              q \in f.files},
                 dirs  |-> {IF IsUnder(q, from) THEN Rebase(q, from, to) ELSE q :
                              q \in f.dirs}],
        err |-> NoError]

(***************************************************************************)
(* Collision resolver (the same code in fs_ops.cxx and executor.cxx).      *)
(* std::optional<path> is a set with at most one element.                  *)
(***************************************************************************)
max_candidate_index == 100

does_target_exist(f, target) == IF ~exists(f, target) THEN {target} ELSE {}

build_candidate(target) ==
  [parent |-> parent_path(target), stem |-> stem(target),
   extension |-> extension(target)]

\* parent / fmt::format("{} ({}){}", stem, idx, ext)
make_candidate_path(c, n) ==
  Join(c.parent, c.stem \o <<" ", "(">> \o FormatInt(n) \o <<")">> \o c.extension)

\* views::iota(1, max_candidate_index) is 1 .. max_candidate_index - 1
make_candidate_paths(c) ==
  [n \in 1..(max_candidate_index - 1) |-> make_candidate_path(c, n)]

\* mutant: the last free candidate is taken instead of the first
find_valid_candidate_last(f, c_paths) ==
  LET free == {n \in 1..Len(c_paths) : ~exists(f, c_paths[n])}
  IN  IF free = {} THEN {}
      ELSE {c_paths[CHOOSE n \in free : \A m \in free : n >= m]}

find_valid_candidate(f, c_paths) ==
  LET free == {n \in 1..Len(c_paths) : ~exists(f, c_paths[n])}
  IN  IF free = {} THEN {}
      ELSE {c_paths[CHOOSE n \in free : \A m \in free : n <= m]}

make_valid_candidate(f, target) ==
  find_valid_candidate(f, make_candidate_paths(build_candidate(target)))

resolve_collision(f, target) ==
  LET found == IF does_target_exist(f, target) # {}
                 THEN does_target_exist(f, target)
                 ELSE make_valid_candidate(f, target)
  IN  IF found # {} THEN CHOOSE p \in found : TRUE ELSE target

ensure_directory(f, dir) == create_directories(f, dir)

(***************************************************************************)
(* Filesystem calls are recorded as events: kind is "mkdir", "probe" or    *)
(* "rename"; existed tells whether dst named an existing entry when the    *)
(* call was made; err is the call's error code.                            *)
(***************************************************************************)
Event(k, s, d, x, e) == [kind |-> k, src |-> s, dst |-> d, existed |-> x, err |-> e]

\* the events of one operation, tagged with its position in the plan
Stamp(evs, i) ==
  [k \in 1..Len(evs) |->
     [op |-> i, kind |-> evs[k].kind, src |-> evs[k].src, dst |-> evs[k].dst,
      existed |-> evs[k].existed, err |-> evs[k].err]]

MkdirEvent(f, dir, res) == Event("mkdir", <<>>, dir, dir \in f.dirs, res.err)

ProbeEvent(f, target) ==
  Event("probe", target, resolve_collision(f, target),
        exists(f, resolve_collision(f, target)), NoError)

RenameEvent(f, from, to, res) == Event("rename", from, to, exists(f, to), res.err)

(***************************************************************************)
(* Executor of the modular pipeline (executor.cxx).                        *)
(***************************************************************************)
\* mutant: the collision probe runs before the directory is created
perform_move_probe_first(f, op) ==
  LET dst == resolve_collision(f, op.destination)
      d   == ensure_directory(f, parent_path(op.destination))
      r   == rename(d.fs, op.source, dst)
  IN  IF d.err # NoError
        THEN [fs |-> d.fs, err |-> d.err,
              ev |-> <<ProbeEvent(f, op.destination),
                       MkdirEvent(f, parent_path(op.destination), d)>>]
        ELSE [fs |-> r.fs, err |-> r.err,
              ev |-> <<ProbeEvent(f, op.destination),
                       MkdirEvent(f, parent_path(op.destination), d),
                       RenameEvent(d.fs, op.source, dst, r)>>]

\* ensure_directory(parent).and_then(rename(source, resolve_collision(dest)))
perform_move(f, op) ==
  LET d   == ensure_directory(f, parent_path(op.destination))
      dst == resolve_collision(d.fs, op.destination)
      r   == rename(d.fs, op.source, dst)
  IN  IF d.err # NoError
        THEN [fs |-> d.fs, err |-> d.err,
              ev |-> <<MkdirEvent(f, parent_path(op.destination), d)>>]
        ELSE [fs |-> r.fs, err |-> r.err,
              ev |-> <<MkdirEvent(f, parent_path(op.destination), d),
                       ProbeEvent(d.fs, op.destination),
                       RenameEvent(d.fs, op.source, dst, r)>>]

NoFailure == [source |-> <<>>, destination |-> <<>>, error |-> NoError]

create_success == [status |-> "success", failure |-> NoFailure]

create_failure(o, ec) ==
  [status  |-> "failure",
   failure |-> [source |-> o.source, destination |-> o.destination, error |-> ec]]

create_skipped == [status |-> "skipped", failure |-> NoFailure]

\* mutant: a failure is reported with a fixed error code
process_operation_fixed_code(f, op) ==
  LET m == perform_move(f, op)
  IN  IF op.source = op.destination
        THEN [fs |-> f, result |-> create_skipped, ev |-> <<>>]
        ELSE [fs |-> m.fs, ev |-> m.ev,
              result |-> IF m.err = NoError THEN create_success
                         ELSE create_failure(op, "EIO")]

process_operation(f, op) ==
  LET m == perform_move(f, op)
  IN  IF op.source = op.destination
        THEN [fs |-> f, result |-> create_skipped, ev |-> <<>>]
        ELSE [fs |-> m.fs, ev |-> m.ev,
              result |-> IF m.err = NoError THEN create_success
                         ELSE create_failure(op, m.err)]

\* the report builders of execution_report and of ExecutionReport
with_processed(r) == [r EXCEPT !.processed_count = @ + 1]

with_success(r) == [r EXCEPT !.success_count = @ + 1]

with_failure(r, failure) == [r EXCEPT !.failures = Append(@, failure)]

\* mutant: a skipped operation is not counted as processed
accumulate_reports_skip_uncounted(r, result) ==
  CASE result.status = "success" -> with_success(with_processed(r))
    [] result.status = "failure" -> with_failure(with_processed(r), result.failure)
    [] result.status = "skipped" -> r

accumulate_reports(r, result) ==
  CASE result.status = "success" -> with_success(with_processed(r))
    [] result.status = "failure" -> with_failure(with_processed(r), result.failure)
    [] result.status = "skipped" -> with_processed(r)

\* execution_report::start() and ExecutionReport{}
start == [failures |-> <<>>, processed_count |-> 0, success_count |-> 0]

failure_count(r) == Len(r.failures)

skipped_count(r) == r.processed_count - r.success_count - failure_count(r)

(***************************************************************************)
(* Executor of fs_ops.cxx.  execute() builds its result eagerly: the       *)
(* directory is ensured, the collision is resolved while the and_then      *)
(* callback is constructed, and the rename runs when the directory call    *)
(* succeeded, all before source and destination are compared.  The report  *)
(* was moved into that computation, so the skip branch continues from the  *)
(* moved-from report: its counters are intact, its failures vector empty.  *)
(***************************************************************************)
MovedFrom(r) == [r EXCEPT !.failures = <<>>]

execute(f, op, rep) ==
  LET d   == ensure_directory(f, parent_path(op.destination))
      dst == resolve_collision(d.fs, op.destination)
      r   == rename(d.fs, op.source, dst)
      mk  == MkdirEvent(f, parent_path(op.destination), d)
      pr  == ProbeEvent(d.fs, op.destination)
      err == IF d.err # NoError THEN d.err ELSE r.err
      result == IF err = NoError THEN with_success(with_processed(rep))
                ELSE with_failure(with_processed(rep),
                                  [source |-> op.source,
                                   destination |-> op.destination,
                                   error |-> err])
  IN  [fs |-> IF d.err # NoError THEN d.fs ELSE r.fs,
       ev |-> IF d.err # NoError THEN <<mk, pr>>
              ELSE <<mk, pr, RenameEvent(d.fs, op.source, dst, r)>>,
       report |-> IF op.source = op.destination
                    THEN with_processed(MovedFrom(rep))
                    ELSE result]

(***************************************************************************)
(* The fold of execute_plan, one operation per step.                       *)
(***************************************************************************)
\* mutant: the fold stops at the first failed operation
ExecuteModular_abort ==
  /\ pc = "exec" /\ variant = "modular" /\ idx <= Len(plan)
  /\ LET p == process_operation(fs, plan[idx])
     IN  /\ fs' = p.fs
         /\ report' = accumulate_reports(report, p.result)
         /\ log' = log \o Stamp(p.ev, idx)
         /\ idx' = IF p.result.status = "failure" THEN Len(plan) + 1 ELSE idx + 1
  /\ UNCHANGED <<variant, denied, locked, pc, run, file_bin, error_bin, plan, snap>>
  /\ UNCHANGED <<raw_results, files_by_extension, folders>>

ExecuteModular ==
  /\ pc = "exec" /\ variant = "modular" /\ idx <= Len(plan)
  /\ LET p == process_operation(fs, plan[idx])
     IN  /\ fs' = p.fs
         /\ report' = accumulate_reports(report, p.result)
         /\ log' = log \o Stamp(p.ev, idx)
  /\ idx' = idx + 1
  /\ UNCHANGED <<variant, denied, locked, pc, run, file_bin, error_bin, plan, snap>>
  /\ UNCHANGED <<raw_results, files_by_extension, folders>>

ExecuteFsOps ==
  /\ pc = "exec" /\ variant = "fs_ops" /\ idx <= Len(plan)
  /\ LET e == execute(fs, plan[idx], report)
     IN  /\ fs' = e.fs
         /\ report' = e.report
         /\ log' = log \o Stamp(e.ev, idx)
  /\ idx' = idx + 1
  /\ UNCHANGED <<variant, denied, locked, pc, run, file_bin, error_bin, plan, snap>>
  /\ UNCHANGED <<raw_results, files_by_extension, folders>>

\* the fold has consumed the plan: execute_plan returns the report
Return ==
  /\ pc = "exec" /\ idx > Len(plan)
  /\ pc' = "done"
  /\ UNCHANGED <<variant, fs, denied, locked, run, file_bin, error_bin, plan,
                 idx, report, log, snap, raw_results, files_by_extension, folders>>

(***************************************************************************)
(* Scanner.  safe_scan yields the entries of the directory in the order    *)
(* the system enumerates them (any order), and after an enumeration error  *)
(* yields that error and stops.  A raw result is an entry or an error.     *)
(***************************************************************************)
\* the entries directly inside a directory
Entries(f, dir) == {q \in f.files \cup f.dirs : parent_path(q) = dir}

\* the sequences that list every element of a set once
Orderings(S) ==
  {q \in [1..Cardinality(S) -> S] : \A i, j \in 1..Cardinality(S) : i # j => q[i] # q[j]}

Value(q) == [has_value |-> TRUE, path |-> q, error |-> NoError]

Unexpected(e) == [has_value |-> FALSE, path |-> <<>>, error |-> e]

\* the raw results safe_scan can produce: the directory cannot be opened,
\* every entry is yielded, or the increment fails after k entries
safe_scan(f, dir) ==
  IF dir \notin f.dirs THEN {<<Unexpected("ENOENT")>>}
  ELSE LET all == {[k \in 1..Len(o) |-> Value(o[k])] : o \in Orderings(Entries(f, dir))}
       IN  all \cup {SubSeq(r, 1, k) \o <<Unexpected("EIO")>> :
                       r \in all, k \in 0..(Cardinality(Entries(f, dir)) - 1)}

\* the elements of a sequence that satisfy a test, in their order
RECURSIVE SelectSeqBy(_, _)
SelectSeqBy(s, keep) ==
  IF s = <<>> THEN <<>>
  ELSE (IF s[1] \in keep THEN <<s[1]>> ELSE <<>>) \o SelectSeqBy(Tail(s), keep)

\* mutant: the errors are dropped
split_values_only(raw) ==
  [values |-> SelectSeqBy(raw, {x \in {raw[k] : k \in 1..Len(raw)} : x.has_value}),
   errors |-> <<>>]

\* ranges::partition puts the values before the errors
split(raw) ==
  [values |-> SelectSeqBy(raw, {x \in {raw[k] : k \in 1..Len(raw)} : x.has_value}),
   errors |-> SelectSeqBy(raw, {x \in {raw[k] : k \in 1..Len(raw)} : ~x.has_value})]

\* directory_entry::is_regular_file
is_regular_file(f, q) == q \in f.files

\* fs_ops::collect_files of fs_ops.cxx: every enumerated entry is a file
collect_files_fs_ops(f, raw) ==
  LET s == split(raw)
  IN  [file_bin  |-> [k \in 1..Len(s.values) |-> s.values[k].path],
       error_bin |-> [k \in 1..Len(s.errors) |-> s.errors[k].error]]

\* fs_ops::scanner::collect_files: the regular files among the entries
collect_files(f, raw) ==
  LET s    == split(raw)
      regs == SelectSeqBy(s.values, {x \in {s.values[k] : k \in 1..Len(s.values)} :
                                       is_regular_file(f, x.path)})
  IN  [file_bin  |-> [k \in 1..Len(regs) |-> regs[k].path],
       error_bin |-> [k \in 1..Len(s.errors) |-> s.errors[k].error]]

\* the bucket of files without an extension
no_extension == <<"n", "o", "_", "e", "x", "t", "e", "n", "s", "i", "o", "n">>

(***************************************************************************)
(* Planner.                                                                *)
(***************************************************************************)
\* a path built from a string without separators
PathOf(str) == IF str = <<>> THEN <<>> ELSE <<str>>

normalize_extension(p) ==
  IF ~has_extension(p) THEN <<>> ELSE to_lowercase(extension(p))

ScannedFile(p, e) == [path |-> p, extension |-> e]

\* fs_ops.cxx: the extension of the path itself is normalized
decorate_with_extensions_fs_ops(raw_files) ==
  [k \in 1..Len(raw_files) |->
     ScannedFile(raw_files[k], normalize_extension(raw_files[k]))]

\* planner.cxx: the extension string is converted to a path and that path
\* is normalized
decorate_with_extensions(raw_files) ==
  [k \in 1..Len(raw_files) |->
     ScannedFile(raw_files[k], normalize_extension(PathOf(extension(raw_files[k]))))]

IsSortedByExtension(s) ==
  \A i, j \in 1..Len(s) : i < j => ~StrLess(s[j].extension, s[i].extension)

\* s and t hold the same elements the same number of times
IsPermutation(s, t) ==
  /\ Len(s) = Len(t)
  /\ \E f \in [1..Len(s) -> 1..Len(s)] :
       /\ \A i, j \in 1..Len(s) : i # j => f[i] # f[j]
       /\ \A i \in 1..Len(s) : t[i] = s[f[i]]

\* ranges::sort by extension is not a stable sort: every arrangement in
\* non-decreasing extension order is a possible result
sort_by_extension(raw_files) ==
  {[i \in 1..Len(raw_files) |-> raw_files[f[i]]] :
     f \in {g \in [1..Len(raw_files) -> 1..Len(raw_files)] :
              /\ \A i, j \in 1..Len(raw_files) : i # j => g[i] # g[j]
              /\ IsSortedByExtension([i \in 1..Len(raw_files) |-> raw_files[g[i]]])}}

make_bucket_name(file) ==
  IF file.extension = <<>> THEN no_extension ELSE Substr1(file.extension)

\* views::chunk_by: the maximal runs of neighbours with equal extension
RECURSIVE chunk_by(_)
chunk_by(sorted) ==
  IF sorted = <<>> THEN <<>>
  ELSE LET stops == {k \in 1..Len(sorted) :
                       k = Len(sorted) \/ sorted[k].extension # sorted[k + 1].extension}
           k     == CHOOSE x \in stops : \A y \in stops : x <= y
       IN  <<SubSeq(sorted, 1, k)>> \o chunk_by(SubSeq(sorted, k + 1, Len(sorted)))

\* mutant: only the front of a chunk is planned
make_move_plans_front(chunk, root_path) ==
  <<[source      |-> chunk[1].path,
     destination |-> Join(Join(root_path, make_bucket_name(chunk[1])),
                          filename(chunk[1].path)),
     bucket_name |-> make_bucket_name(chunk[1])]>>

\* one operation per file of a chunk, the bucket name taken from its front
make_move_plans(chunk, root_path) ==
  [k \in 1..Len(chunk) |->
     [source      |-> chunk[k].path,
      destination |-> Join(Join(root_path, make_bucket_name(chunk[1])),
                           filename(chunk[k].path)),
      bucket_name |-> make_bucket_name(chunk[1])]]

\* views::join
RECURSIVE JoinAll(_)
JoinAll(ss) == IF ss = <<>> THEN <<>> ELSE ss[1] \o JoinAll(Tail(ss))

\* mutant: the sorted files are planned as one chunk
generate_one_chunk(sorted_files, root_path) ==
  IF sorted_files = <<>> THEN <<>> ELSE make_move_plans(sorted_files, root_path)

generate(sorted_files, root_path) ==
  LET chunks == SelectSeqBy(chunk_by(sorted_files),
                            {ch \in {chunk_by(sorted_files)[k] :
                                       k \in 1..Len(chunk_by(sorted_files))} : ch # <<>>})
  IN  JoinAll([k \in 1..Len(chunks) |-> make_move_plans(chunks[k], root_path)])

\* the plans generate_plan can return for a file list, per pipeline
generate_plan_fs_ops(raw_files, root_path) ==
  {generate(sorted, root_path) :
     sorted \in sort_by_extension(decorate_with_extensions_fs_ops(raw_files))}

generate_plan(raw_files, root_path) ==
  {generate(sorted, root_path) :
     sorted \in sort_by_extension(decorate_with_extensions(raw_files))}

(***************************************************************************)
(* The paths and filesystems the executor is run on.                       *)
(***************************************************************************)
Root == << <<"r">> >>

a_png == <<"a", ".", "p", "n", "g">>
b_py  == <<"b", ".", "p", "y">>
c_file == <<"c">>
png == <<"p", "n", "g">>
py == <<"p", "y">>
sub == <<"s">>

Operation(s, d, b) == [source |-> s, destination |-> d, bucket_name |-> b]

PngDir == Join(Root, png)

\* the operations plans are drawn from: three plain moves, a second file
\* with the nominal destination of the first, and a move onto itself
OpA == Operation(Join(Root, a_png), Join(PngDir, a_png), png)
OpB == Operation(Join(Root, b_py), Join(Join(Root, py), b_py), py)
OpC == Operation(Join(Root, c_file), Join(Join(Root, no_extension), c_file), no_extension)
OpS == Operation(Join(Join(Root, sub), a_png), Join(PngDir, a_png), png)
OpK == Operation(Join(PngDir, a_png), Join(PngDir, a_png), png)

OpUniverse == {OpA, OpB, OpC, OpS, OpK}

IsInjective(s) == \A i, j \in 1..Len(s) : i # j => s[i] # s[j]

Plans ==
  {s \in UNION {[1..n -> OpUniverse] : n \in 0..MaxOps} : IsInjective(s)}

\* the entry of the a.png family numbered n in the png folder: a.png itself
\* for 0, its n-th collision candidate otherwise
Family(n) ==
  IF n = 0 THEN Join(PngDir, a_png)
  ELSE make_candidate_path(build_candidate(Join(PngDir, a_png)), n)

\* which members of the family exist initially: none, the plain name, a
\* prefix, a set with a gap, and the whole probed range
Occupancies ==
  {{}, {0}, {0, 1}, {0, 2}, 0..(max_candidate_index - 1)}

SourceFiles == {Join(Root, a_png), Join(Root, b_py), Join(Root, c_file),
                Join(Join(Root, sub), a_png)}

InitialFs(occ, missing) ==
  [files |-> (SourceFiles \ missing) \cup {Family(n) : n \in occ},
   dirs  |-> {Root, Join(Root, sub)} \cup (IF occ = {} THEN {} ELSE {PngDir})]

\* the extension map before collect_files_by_extension has run: a
\* FilesByExtension is the error of the scan ("" for none) and the paths
\* collected under each extension key
NoFiles == [error |-> NoError, groups |-> <<>>]

\* what is remembered of the first run of the pipeline; empty until then
NoSnap == [files |-> {}, dirs |-> {}, plan |-> <<>>, report |-> start,
           error_bin |-> <<>>]

InitExec ==
  /\ variant \in {"fs_ops", "modular"}
  /\ \E occ \in Occupancies, missing \in {{}, {Join(Root, b_py)}} :
       fs = InitialFs(occ, missing)
  /\ denied \in {{}, {Join(Root, py)}, {PngDir}}
  /\ locked \in {{}, {Join(Root, c_file)}}
  /\ plan \in Plans
  /\ pc = "exec"
  /\ run = 1
  /\ file_bin = <<>>
  /\ error_bin = <<>>
  /\ idx = 1
  /\ report = start
  /\ log = <<>>
  /\ snap = NoSnap
  /\ raw_results = <<>>
  /\ files_by_extension = NoFiles
  /\ folders = <<>>

NextExec == ExecuteModular \/ ExecuteFsOps \/ Return

\* execute_plan on any plan and filesystem of the universe
Spec == InitExec /\ [][NextExec]_vars

TypeOK ==
  /\ variant \in {"fs_ops", "modular"}
  /\ pc \in {"scan", "plan", "exec", "done"}
  /\ idx \in 1..(Len(plan) + 1)
  /\ report.processed_count \in 0..Len(plan)
  /\ report.success_count \in 0..Len(plan)

(***************************************************************************)
(* The pipeline: collect_files, generate_plan, execute_plan on the root,   *)
(* and then the same a second time.                                        *)
(***************************************************************************)
ScanFsOps ==
  /\ pc = "scan" /\ variant = "fs_ops"
  /\ \E raw \in safe_scan(fs, Root) :
       /\ raw_results' = raw
       /\ file_bin' = collect_files_fs_ops(fs, raw).file_bin
       /\ error_bin' = collect_files_fs_ops(fs, raw).error_bin
  /\ pc' = "plan"
  /\ UNCHANGED <<variant, fs, denied, locked, run, plan, idx, report, log, snap>>
  /\ UNCHANGED <<files_by_extension, folders>>

ScanModular ==
  /\ pc = "scan" /\ variant = "modular"
  /\ \E raw \in safe_scan(fs, Root) :
       /\ raw_results' = raw
       /\ file_bin' = collect_files(fs, raw).file_bin
       /\ error_bin' = collect_files(fs, raw).error_bin
  /\ pc' = "plan"
  /\ UNCHANGED <<variant, fs, denied, locked, run, plan, idx, report, log, snap>>
  /\ UNCHANGED <<files_by_extension, folders>>

PlanFsOps ==
  /\ pc = "plan" /\ variant = "fs_ops"
  /\ plan' \in generate_plan_fs_ops(file_bin, Root)
  /\ pc' = "exec"
  /\ UNCHANGED <<variant, fs, denied, locked, run, file_bin, error_bin, idx,
                 report, log, snap, raw_results, files_by_extension, folders>>

PlanModular ==
  /\ pc = "plan" /\ variant = "modular"
  /\ plan' \in generate_plan(file_bin, Root)
  /\ pc' = "exec"
  /\ UNCHANGED <<variant, fs, denied, locked, run, file_bin, error_bin, idx,
                 report, log, snap, raw_results, files_by_extension, folders>>

\* the pipeline is started again on the same root
Rerun ==
  /\ pc = "done" /\ run = 1
  /\ snap' = [files |-> fs.files, dirs |-> fs.dirs, plan |-> plan,
              report |-> report, error_bin |-> error_bin]
  /\ run' = 2
  /\ pc' = "scan"
  /\ file_bin' = <<>>
  /\ error_bin' = <<>>
  /\ plan' = <<>>
  /\ idx' = 1
  /\ report' = start
  /\ log' = <<>>
  /\ raw_results' = <<>>
  /\ UNCHANGED <<variant, fs, denied, locked, files_by_extension, folders>>

A_PNG == <<"A", ".", "P", "N", "G">>

\* what the root may hold before the first run: regular files and the
\* directory s
RootFiles == {Join(Root, a_png), Join(Root, b_py), Join(Root, c_file),
              Join(Root, A_PNG)}

RootContents ==
  {S \in SUBSET (RootFiles \cup {Join(Root, sub)}) : Cardinality(S) <= MaxEntries}

InitPipe ==
  /\ variant \in {"fs_ops", "modular"}
  /\ \E S \in RootContents, pre \in {{}, {Join(PngDir, a_png)}} :
       fs = [files |-> (S \cap RootFiles) \cup pre
                        \cup (IF Join(Root, sub) \in S
                                THEN {Join(Join(Root, sub), a_png)} ELSE {}),
             dirs  |-> {Root} \cup (S \ RootFiles)
                        \cup (IF pre = {} THEN {} ELSE {PngDir})]
  /\ denied \in {{}, {Join(Root, py)}}
  /\ locked = {}
  /\ plan = <<>>
  /\ pc = "scan"
  /\ run = 1
  /\ file_bin = <<>>
  /\ error_bin = <<>>
  /\ idx = 1
  /\ report = start
  /\ log = <<>>
  /\ snap = NoSnap
  /\ raw_results = <<>>
  /\ files_by_extension = NoFiles
  /\ folders = <<>>

NextPipe ==
  \/ ScanFsOps \/ ScanModular \/ PlanFsOps \/ PlanModular
  \/ ExecuteModular \/ ExecuteFsOps \/ Return \/ Rerun

\* two consecutive runs of the pipeline on one root
SpecPipe == InitPipe /\ [][NextPipe]_vars

(***************************************************************************)
(* What the recorded filesystem calls say about the operations of the      *)
(* plan, independently of the report.                                      *)
(***************************************************************************)
Done == pc = "done"

\* the operations the fold has processed so far
Processed == 1..(idx - 1)

IsSkip(i) == plan[i].source = plan[i].destination

EventsOf(i) == {log[k] : k \in {j \in 1..Len(log) : log[j].op = i}}

\* a directory creation or a rename of operation i returned an error
CallFailed(i) ==
  \E e \in EventsOf(i) : e.kind \in {"mkdir", "rename"} /\ e.err # NoError

\* the error code operation i failed with
ErrorOf(i) ==
  (CHOOSE e \in EventsOf(i) : e.kind \in {"mkdir", "rename"} /\ e.err # NoError).err

\* the directory of operation i was ensured and its rename succeeded
Moved(i) ==
  /\ \E e \in EventsOf(i) : e.kind = "mkdir" /\ e.err = NoError
  /\ \E e \in EventsOf(i) : e.kind = "rename" /\ e.err = NoError

Attempted(i) == \E e \in EventsOf(i) : e.kind = "mkdir"

FailedOps(n) == {i \in 1..n : ~IsSkip(i) /\ CallFailed(i)}

\* the FailedOperation records of the failed operations among the first n,
\* in plan order
RECURSIVE ExpectedFailures(_)
ExpectedFailures(n) ==
  IF n = 0 THEN <<>>
  ELSE ExpectedFailures(n - 1) \o
       (IF n \in FailedOps(n)
          THEN <<[source |-> plan[n].source, destination |-> plan[n].destination,
                  error |-> ErrorOf(n)]>>
          ELSE <<>>)

(***************************************************************************)
(* C1..C10                                                                 *)
(***************************************************************************)
\* C1: execute_plan terminates on every plan and filesystem, also when
\* directory creations and renames fail (while it has not returned one of
\* the fold's steps applies, every step consumes one operation or returns,
\* and no more operations are consumed than the plan holds), and the
\* report it returns has processed_count equal to the number of operations
\* of the plan.
C1_ProcessedAll ==
  /\ [](Done => report.processed_count = Len(plan))
  /\ [](pc = "exec" => /\ idx <= Len(plan) + 1
                        /\ idx <= Len(plan) => variant \in {"fs_ops", "modular"})
  /\ [][\/ (idx' = idx + 1 /\ idx <= Len(plan))
        \/ (idx > Len(plan) /\ pc' = "done")]_vars

\* a returned run of a plan in which a directory creation and a rename failed
C1_Witness ==
  /\ Done /\ Len(plan) >= 2 /\ report.processed_count = Len(plan)
  /\ \E k \in 1..Len(log) : log[k].kind = "mkdir" /\ log[k].err # NoError
  /\ \E k \in 1..Len(log) : log[k].kind = "rename" /\ log[k].err # NoError

\* C2: after every step of the fold success_count + |failures| +
\* skipped_count = processed_count, skipped_count is not negative and is the
\* number of processed operations whose source equals their destination,
\* success_count is the number of operations whose move succeeded and
\* |failures| the number of operations that failed.
C2_Accounting ==
  pc \in {"exec", "done"} =>
    /\ report.success_count + failure_count(report) + skipped_count(report)
         = report.processed_count
    /\ skipped_count(report) >= 0
    /\ skipped_count(report) = Cardinality({i \in Processed : IsSkip(i)})
    /\ report.success_count = Cardinality({i \in Processed : ~IsSkip(i) /\ Moved(i)})
    /\ failure_count(report) = Cardinality(FailedOps(idx - 1))

\* C3: the failures of the returned report are exactly the failed
\* operations of the plan, in plan order, each with its source, its nominal
\* destination and the error code; failures of earlier operations are kept
\* whatever the later operations do.
C3_FailuresComplete == Done => report.failures = ExpectedFailures(Len(plan))

\* C4: a failing operation does not stop the others: every operation that
\* is not a move onto itself is attempted, is counted as a success exactly
\* when its own directory creation and rename succeed, and is then at its
\* resolved destination; a three-operation plan of which only the second
\* fails reports 3 processed, 2 successes and one failure.
C4_FailureIsolation ==
  /\ Done =>
       /\ \A i \in 1..Len(plan) : ~IsSkip(i) => Attempted(i)
       /\ report.success_count
            = Cardinality({i \in 1..Len(plan) : ~IsSkip(i) /\ Moved(i)})
       /\ (/\ Len(plan) = 3
           /\ FailedOps(3) = {2}
           /\ \A i \in {1, 3} : ~IsSkip(i) /\ Moved(i))
          => /\ report.processed_count = 3
             /\ report.success_count = 2
             /\ failure_count(report) = 1
  /\ \A e \in (IF idx > 1 /\ pc = "exec" THEN EventsOf(idx - 1) ELSE {}) :
       (e.kind = "rename" /\ e.err = NoError /\ ~IsSkip(idx - 1))
         => /\ exists(fs, e.dst)
            /\ (e.src # e.dst => ~exists(fs, e.src))

\* a returned three-operation plan whose second operation alone failed
C4_Witness ==
  /\ Done /\ Len(plan) = 3 /\ FailedOps(3) = {2}
  /\ \A i \in {1, 3} : ~IsSkip(i) /\ Moved(i)
  /\ report.success_count = 2

\* C5: an operation whose source equals its destination leaves the
\* filesystem alone (no call is made for it), adds one to processed_count
\* and leaves success_count and the failures unchanged.
C5_SkipIsNoOp ==
  [][(pc = "exec" /\ idx <= Len(plan) /\ IsSkip(idx))
       => /\ fs' = fs
          /\ log' = log
          /\ report'.processed_count = report.processed_count + 1
          /\ report'.success_count = report.success_count
          /\ report'.failures = report.failures]_vars

\* the destinations the resolver is asked about
Targets == {o.destination : o \in OpUniverse} \cup {Family(1), Family(2)}

\* the numbered candidates of a target, without a cap
CandidateOf(t, n) == make_candidate_path(build_candidate(t), n)

\* how far the uncapped search of the claim is followed
ProbeHorizon == 2 * max_candidate_index

C7_ResolvedIsFree ==
  \A t \in Targets : ~exists(fs, resolve_collision(fs, t))

\* C8: no rename of a run targets a path that exists; an operation for
\* which no free name is found is recorded as a failure.
C8_NoOverwrite ==
  \A k \in 1..Len(log) :
    /\ (log[k].kind = "rename" /\ log[k].err = NoError) => ~log[k].existed
    /\ (log[k].kind = "probe" /\ log[k].existed /\ log[k].op < idx)
         => \E j \in 1..Len(report.failures) :
              report.failures[j].source = plan[log[k].op].source

\* the first run scanned without error and all its moves succeeded
FirstRunClean ==
  /\ snap.error_bin = <<>>
  /\ snap.plan # <<>>
  /\ snap.report.success_count = Len(snap.plan)

\* C9: after a first run whose moves all succeeded, a second run on the
\* same root plans nothing or only moves onto themselves, and every entry
\* is where the first run left it.
C9_Idempotent ==
  (Done /\ run = 2 /\ FirstRunClean)
    => /\ \A i \in 1..Len(plan) : IsSkip(i)
       /\ fs.files = snap.files
       /\ fs.dirs = snap.dirs

MaxFiles == 3

foo_dot == <<"f", "o", "o", ".">>
dot_rc == <<".", "r", "c">>

PlanFiles == {Join(Root, a_png), Join(Root, A_PNG), Join(Root, b_py),
              Join(Root, c_file), Join(Root, foo_dot), Join(Root, dot_rc)}

FileLists ==
  {s \in UNION {[1..n -> PlanFiles] : n \in 0..MaxFiles} : IsInjective(s)}

InitPlan ==
  /\ variant \in {"fs_ops", "modular"}
  /\ fs = [files |-> PlanFiles, dirs |-> {Root}]
  /\ denied = {}
  /\ locked = {}
  /\ file_bin \in FileLists
  /\ error_bin = <<>>
  /\ plan = <<>>
  /\ pc = "plan"
  /\ run = 1
  /\ idx = 1
  /\ report = start
  /\ log = <<>>
  /\ snap = NoSnap
  /\ raw_results = <<>>
  /\ files_by_extension = NoFiles
  /\ folders = <<>>

NextPlan == PlanFsOps \/ PlanModular

\* generate_plan on any file list of the universe
SpecPlan == InitPlan /\ [][NextPlan]_vars

\* the plan has been generated
Planned == pc \in {"exec", "done"}

\* the decorated file the pipeline at hand makes of a path
OwnFile(p) ==
  IF variant = "fs_ops" THEN decorate_with_extensions_fs_ops(<<p>>)[1]
  ELSE decorate_with_extensions(<<p>>)[1]

\* C11: every operation of a generated plan has the destination
\* root / bucket_name / source.filename(), and its bucket_name, taken from
\* the front of its chunk, is the bucket of its own source file
C11_DestinationFromBucket ==
  Planned =>
    \A i \in 1..Len(plan) :
      /\ plan[i].destination =
           Join(Join(Root, plan[i].bucket_name), filename(plan[i].source))
      /\ plan[i].bucket_name = make_bucket_name(OwnFile(plan[i].source))

\* a plan in which an operation takes its bucket from another file, the
\* front of its chunk, beside an operation of another bucket
C11_Witness ==
  /\ Planned /\ variant = "fs_ops"
  /\ \E i, j, k \in 1..Len(plan) :
       /\ i < j
       /\ plan[i].bucket_name = plan[j].bucket_name
       /\ plan[k].bucket_name # plan[i].bucket_name

(***************************************************************************)
(* The classifier of constants.hxx: a static table from extension to       *)
(* folder name, with one entry for the key of files without an extension.  *)
(***************************************************************************)
g_NO_EXTENSION == <<"~", "E", "m", "p", "t", "y">>

g_OTHERS_FOLDER_NAME == <<"O", "t", "h", "e", "r", "s">>

\* the pairs (extension, folder name) in the order of the array
g_KNOWN_EXTENSIONS ==
  <<<<<<".", "p", "n", "g">>, <<"I", "m", "a", "g", "e", "s">>>>,
    <<<<".", "j", "p", "g">>, <<"I", "m", "a", "g", "e", "s">>>>,
    <<<<".", "s", "v", "g">>, <<"I", "m", "a", "g", "e", "s">>>>,
    <<<<".", "d", "o", "c", "x">>, <<"D", "o", "c", "u", "m", "e", "n", "t", "s">>>>,
    <<<<".", "p", "d", "f">>, <<"D", "o", "c", "u", "m", "e", "n", "t", "s">>>>,
    <<<<".", "c", "p", "p">>, <<"S", "o", "u", "r", "c", "e", " ", "C", "o", "d", "e">>>>,
    <<<<".", "p", "y">>, <<"S", "o", "u", "r", "c", "e", " ", "C", "o", "d", "e">>>>,
    <<<<".", "j", "s", "o", "n">>, <<"D", "a", "t", "a", " ", "F", "i", "l", "e", "s">>>>,
    <<<<".", "c", "s", "v">>, <<"D", "a", "t", "a", " ", "F", "i", "l", "e", "s">>>>,
    <<<<".", "m", "d">>, <<"M", "a", "r", "k", "d", "o", "w", "n">>>>,
    <<<<".", "t", "x", "t">>, <<"T", "e", "x", "t", " ", "F", "i", "l", "e", "s">>>>,
    <<<<".", "p", "p", "t", "x">>, <<"P", "r", "e", "s", "e", "n", "t", "a", "t", "i", "o", "n", "s">>>>,
    <<<<".", "m", "p", "3">>, <<"A", "u", "d", "i", "o">>>>,
    <<<<".", "w", "a", "v">>, <<"A", "u", "d", "i", "o">>>>,
    <<g_NO_EXTENSION, <<"N", "o", " ", "E", "x", "t", "e", "n", "s", "i", "o", "n">>>>>>

\* ranges::find_if: the first pair with the extension, else "Others"
get_folder_name(ext) ==
  LET hits == {k \in 1..Len(g_KNOWN_EXTENSIONS) : g_KNOWN_EXTENSIONS[k][1] = ext}
  IN  IF hits = {} THEN g_OTHERS_FOLDER_NAME
      ELSE g_KNOWN_EXTENSIONS[CHOOSE k \in hits : \A j \in hits : k <= j][2]

\* the key under which a path is classified: its lowercase extension, or
\* the key of files without an extension
ClassifierKey(p) ==
  IF normalize_extension(p) = <<>> THEN g_NO_EXTENSION ELSE normalize_extension(p)

Images == get_folder_name(<<".", "p", "n", "g">>)
SourceCode == get_folder_name(<<".", "p", "y">>)
NoExtensionFolder == get_folder_name(g_NO_EXTENSION)

\* the root holds exactly a.png, b.py and c, nothing is refused
AbcRoot ==
  /\ run = 1
  /\ denied = {}
  /\ {file_bin[k] : k \in 1..Len(file_bin)} =
       {Join(Root, a_png), Join(Root, b_py), Join(Root, c_file)}
  /\ Len(file_bin) = 3
  /\ error_bin = <<>>

\* C12: the bucket_name of every planned operation is the classifier's
\* category of the file's normalized extension; the root a.png, b.py, c is
\* planned as Images/a.png, Source Code/b.py, No Extension/c and executed
\* with processed_count = 3, success_count = 3 and no failure
C12_ClassifierBuckets ==
  /\ Planned =>
       \A i \in 1..Len(plan) :
         plan[i].bucket_name = get_folder_name(ClassifierKey(plan[i].source))
  /\ (Planned /\ AbcRoot) =>
       {<<plan[i].source, plan[i].destination>> : i \in 1..Len(plan)} =
         {<<Join(Root, a_png), Join(Join(Root, Images), a_png)>>,
          <<Join(Root, b_py), Join(Join(Root, SourceCode), b_py)>>,
          <<Join(Root, c_file), Join(Join(Root, NoExtensionFolder), c_file)>>}
  /\ (pc = "done" /\ AbcRoot) =>
       /\ report.processed_count = 3
       /\ report.success_count = 3
       /\ report.failures = <<>>

(***************************************************************************)
(* The organizer of main.cxx and organization.cxx: the regular files of    *)
(* the target directory are grouped by extension, every extension is       *)
(* classified into a folder, and a folder whose name is taken gets a       *)
(* numeric suffix estimated from the existing folder names.                *)
(***************************************************************************)
\* the elements of a finite set of strings in increasing order
SortedStrings(S) ==
  CHOOSE s \in Orderings(S) : \A i, j \in 1..Len(s) : i < j => StrLess(s[i], s[j])

\* path operator< : the first differing component decides, a proper prefix
\* comes first
RECURSIVE PathLess(_, _)
PathLess(p, q) ==
  IF q = <<>> THEN FALSE
  ELSE IF p = <<>> THEN TRUE
  ELSE IF p[1] = q[1] THEN PathLess(Tail(p), Tail(q))
  ELSE StrLess(p[1], q[1])

\* ranges::sort of distinct paths
SortedPaths(S) ==
  CHOOSE s \in Orderings(S) : \A i, j \in 1..Len(s) : i < j => PathLess(s[i], s[j])

Range(s) == {s[k] : k \in 1..Len(s)}

\* mutant: the extension is the key even when it is empty
ExtensionKey_spelled(p) == extension(p)

\* the key a file is collected under: its extension as spelled, or the key
\* of files without an extension
ExtensionKey(p) == IF extension(p) = <<>> THEN g_NO_EXTENSION ELSE extension(p)

\* collect_files_by_extension: any enumeration error discards what was
\* collected; otherwise the regular files, per key in enumeration order
collect_files_by_extension(f, raw) ==
  LET s     == split(raw)
      regs  == SelectSeqBy(s.values, {x \in Range(s.values) : is_regular_file(f, x.path)})
      paths == [k \in 1..Len(regs) |-> regs[k].path]
  IN  IF s.errors # <<>> THEN [error |-> s.errors[1].error, groups |-> <<>>]
      ELSE [error  |-> NoError,
            groups |-> [key \in {ExtensionKey(p) : p \in Range(paths)} |->
                          SelectSeqBy(paths, {p \in Range(paths) : ExtensionKey(p) = key})]]

\* get_existing_folders: the names of the directories, or the error
get_existing_folders(f, raw) ==
  LET s    == split(raw)
      subs == SelectSeqBy(s.values, {x \in Range(s.values) : x.path \in f.dirs})
  IN  IF s.errors # <<>> THEN [error |-> s.errors[1].error, names |-> <<>>]
      ELSE [error |-> NoError, names |-> [k \in 1..Len(subs) |-> filename(subs[k].path)]]

IsDigit(c) == Ord(c) \in 48..57

\* the value of a string of decimal digits
RECURSIVE DecimalValue(_)
DecimalValue(s) ==
  IF s = <<>> THEN 0
  ELSE 10 * DecimalValue(SubSeq(s, 1, Len(s) - 1)) + (Ord(s[Len(s)]) - 48)

INT_MAX == 2147483647

INT_MIN == 0 - INT_MAX - 1

\* the digits of INT_MAX and of the magnitude of INT_MIN
IntMaxDigits == <<"2", "1", "4", "7", "4", "8", "3", "6", "4", "7">>

IntMinDigits == <<"2", "1", "4", "7", "4", "8", "3", "6", "4", "8">>

RECURSIVE StripZeros(_)
StripZeros(s) == IF Len(s) > 1 /\ s[1] = "0" THEN StripZeros(Tail(s)) ELSE s

\* digit strings of one length: a is at most b
RECURSIVE DigitsLeq(_, _)
DigitsLeq(a, b) ==
  IF a = <<>> THEN TRUE
  ELSE IF a[1] = b[1] THEN DigitsLeq(Tail(a), Tail(b))
  ELSE Ord(a[1]) < Ord(b[1])

\* the number a digit string spells is at most the one limit spells
FitsLimit(s, limit) ==
  \/ Len(StripZeros(s)) < Len(limit)
  \/ Len(StripZeros(s)) = Len(limit) /\ DigitsLeq(StripZeros(s), limit)

\* the negated value of a string of decimal digits
RECURSIVE NegatedValue(_)
NegatedValue(s) ==
  IF s = <<>> THEN 0
  ELSE 10 * NegatedValue(SubSeq(s, 1, Len(s) - 1)) - (Ord(s[Len(s)]) - 48)

\* parse_int: std::from_chars must consume the whole view and not overflow;
\* the result is a set with at most one element
parse_int(view) ==
  IF view # <<>> /\ (\A k \in 1..Len(view) : IsDigit(view[k]))
       /\ FitsLimit(view, IntMaxDigits)
    THEN {DecimalValue(view)} ELSE {}

\* max + 1 in int: the sum overflows at INT_MAX, which is undefined; a
\* build with wrapping arithmetic gives INT_MIN, a build that traps on
\* overflow ends the program (see SuffixOverflow)
NextSuffix(max) == IF max = INT_MAX THEN INT_MIN ELSE max + 1

starts_with(s, prefix) ==
  Len(prefix) <= Len(s) /\ SubSeq(s, 1, Len(prefix)) = prefix

\* ctre::match of ^ \((\d+)\)$ : the digits between " (" and ")", if the
\* whole suffix has that form
MatchSuffixPattern(suffix) ==
  IF /\ Len(suffix) >= 4
     /\ suffix[1] = " " /\ suffix[2] = "(" /\ suffix[Len(suffix)] = ")"
     /\ \A k \in 3..(Len(suffix) - 1) : IsDigit(suffix[k])
    THEN {SubSeq(suffix, 3, Len(suffix) - 1)} ELSE {}

SetMax(S) == CHOOSE x \in S : \A y \in S : y <= x

\* mutant: the lowest positive suffix that no existing name carries
get_collision_suffix_lowest(base_name, existing_folder_names) ==
  IF base_name \notin Range(existing_folder_names) THEN {}
  ELSE LET suffixes == UNION {parse_int(m) :
                         m \in UNION {MatchSuffixPattern(SubSeq(n, Len(base_name) + 1, Len(n))) :
                                n \in {x \in Range(existing_folder_names) :
                                         starts_with(x, base_name)}}}
       IN  {CHOOSE k \in 1..(Cardinality(suffixes) + 1) :
              k \notin suffixes /\ \A j \in 1..(k - 1) : j \in suffixes}

\* organization.cxx: no suffix unless base_name is taken; else one more
\* than the largest parsed suffix, 1 when there is none
get_collision_suffix(base_name, existing_folder_names) ==
  IF base_name \notin Range(existing_folder_names) THEN {}
  ELSE LET suffixes == UNION {parse_int(m) :
                         m \in UNION {MatchSuffixPattern(SubSeq(n, Len(base_name) + 1, Len(n))) :
                                n \in {x \in Range(existing_folder_names) :
                                         starts_with(x, base_name)}}}
       IN  IF suffixes = {} THEN {1} ELSE {NextSuffix(SetMax(suffixes))}

\* the whitespace of the model's alphabet
IsSpace(c) == c = " "

RECURSIVE SkipSpaces(_)
SkipSpaces(s) == IF s # <<>> /\ IsSpace(s[1]) THEN SkipSpaces(Tail(s)) ELSE s

\* how many digits a string starts with
RECURSIVE DigitRun(_)
DigitRun(s) == IF s # <<>> /\ IsDigit(s[1]) THEN 1 + DigitRun(Tail(s)) ELSE 0

ScanFailed == [ok |-> FALSE, value |-> 0]

\* scn::scan<int> with a runtime format: a space of the format matches any
\* run of spaces of the source, "{}" skips spaces and reads an optionally
\* signed decimal int, any other character must be met literally; what is
\* left of the source after the format is not an error
RECURSIVE scn_scan(_, _, _)
scn_scan(source, format, value) ==
  IF format = <<>> THEN [ok |-> TRUE, value |-> value]
  ELSE IF IsSpace(format[1]) THEN scn_scan(SkipSpaces(source), Tail(format), value)
  ELSE IF Len(format) >= 2 /\ format[1] = "{" /\ format[2] = "}"
    THEN LET s      == SkipSpaces(source)
             signed == s # <<>> /\ s[1] \in {"+", "-"}
             body   == IF signed THEN Tail(s) ELSE s
             n      == DigitRun(body)
             minus  == signed /\ s[1] = "-"
             digits == SubSeq(body, 1, n)
         IN  IF n = 0 \/ ~FitsLimit(digits, IF minus THEN IntMinDigits ELSE IntMaxDigits)
               THEN ScanFailed
             ELSE scn_scan(SubSeq(body, n + 1, Len(body)),
                           SubSeq(format, 3, Len(format)),
                           IF minus THEN NegatedValue(digits)
                           ELSE DecimalValue(digits))
  ELSE IF source # <<>> /\ source[1] = format[1]
    THEN scn_scan(Tail(source), Tail(format), value)
  ELSE ScanFailed

\* fmt::format("{} ({})", base_name, "{}")
SuffixFormat(base_name) == base_name \o <<" ", "(", "{", "}", ")">>

\* mutant: the largest scanned suffix itself
find_collision_suffix_max(base_name, existing_folder_names) ==
  IF base_name \notin Range(existing_folder_names) THEN {}
  ELSE LET suffixes == {scn_scan(n, SuffixFormat(base_name), 0).value :
                          n \in {x \in Range(existing_folder_names) :
                                   scn_scan(x, SuffixFormat(base_name), 0).ok}}
       IN  IF suffixes = {} THEN {1} ELSE {SetMax(suffixes)}

\* main.cxx: no suffix unless base_name is taken; else one more than the
\* largest suffix scanned from an existing name, 1 when there is none
find_collision_suffix(base_name, existing_folder_names) ==
  IF base_name \notin Range(existing_folder_names) THEN {}
  ELSE LET suffixes == {scn_scan(n, SuffixFormat(base_name), 0).value :
                          n \in {x \in Range(existing_folder_names) :
                                   scn_scan(x, SuffixFormat(base_name), 0).ok}}
       IN  IF suffixes = {} THEN {1} ELSE {NextSuffix(SetMax(suffixes))}

get_folder_category(folder_name) ==
  IF folder_name = g_OTHERS_FOLDER_NAME THEN "others"
  ELSE IF folder_name = g_NO_EXTENSION THEN "no_extension"
  ELSE "regular"

\* fmt's "{}" rendering of an int
FormatSigned(n) ==
  IF n >= 0 THEN FormatInt(n)
  ELSE LET m == 0 - (n + 1)
       IN  <<"-">> \o
           (IF m % 10 = 9 THEN FormatInt(m \div 10 + 1) \o <<"0">>
            ELSE (IF m \div 10 = 0 THEN <<>> ELSE FormatInt(m \div 10))
                   \o <<DigitChar[(m % 10) + 2]>>)

\* fmt::format("{} ({})", base_name, suffix), or the base name
get_resolved_name(folder) ==
  IF folder.collision_suffix = {} THEN folder.base_name
  ELSE folder.base_name \o <<" ", "(">>
         \o FormatSigned(CHOOSE k \in folder.collision_suffix : TRUE) \o <<")">>

Folder(b, s, c, e, f) ==
  [base_name |-> b, collision_suffix |-> s, category |-> c, extensions |-> e,
   files |-> f]

\* the keys of the extension map in the order of the flat_map
Keys(groups) == SortedStrings(DOMAIN groups)

\* create_folder_groups: per folder name, the keys classified into it in
\* increasing order
create_folder_groups(groups) ==
  [name \in {get_folder_name(e) : e \in DOMAIN groups} |->
     SelectSeqBy(Keys(groups), {e \in DOMAIN groups : get_folder_name(e) = name})]

\* mutant: only the files of the folder's first extension are collected
collect_folder_files_first(extensions, groups) ==
  SortedPaths(UNION {Range(groups[e]) : e \in {extensions[1]} \cap DOMAIN groups})

\* collect_folder_files: the paths of the folder's extensions, sorted
collect_folder_files(extensions, groups) ==
  SortedPaths(UNION {Range(groups[e]) : e \in Range(extensions) \cap DOMAIN groups})

\* organization.cxx: one Folder per group in the order of the folder names
create_folders(folder_groups, existing_folders, groups) ==
  LET names == SortedStrings(DOMAIN folder_groups)
  IN  [k \in 1..Len(names) |->
         Folder(names[k],
                get_collision_suffix(names[k], existing_folders),
                get_folder_category(names[k]),
                folder_groups[names[k]],
                collect_folder_files(folder_groups[names[k]], groups))]

\* main.cxx: collect_unique_folders, initialize_folder_groups and
\* populate_folder_extensions give the same groups; the folders are sorted
\* by base name
create_folders_with_collision_detection(folder_groups, existing_folders, groups) ==
  LET names == SortedStrings(DOMAIN folder_groups)
  IN  [k \in 1..Len(names) |->
         Folder(names[k],
                find_collision_suffix(names[k], existing_folders),
                get_folder_category(names[k]),
                folder_groups[names[k]],
                collect_folder_files(folder_groups[names[k]], groups))]

(***************************************************************************)
(* The organizer run on a target directory: collect_files_by_extension,    *)
(* then create_organization_plan of main.cxx ("main") or of                *)
(* organization.cxx ("organization").  The directory holds some files of   *)
(* the planner's universe and some folders named after the Images folder.  *)
(***************************************************************************)
\* most entries of the organized directory
MaxOrgEntries == 4
\* largest numeric suffix an existing folder carries
MaxSuffix == 2

ImagesName == <<"I", "m", "a", "g", "e", "s">>

\* the folder that the estimator would name for suffix k
ImagesNumbered(k) ==
  get_resolved_name(Folder(ImagesName, {k}, "regular", <<>>, <<>>))

\* a folder whose name goes on after the closing parenthesis
ImagesOld == ImagesNumbered(2) \o <<" ", "o", "l", "d">>

OrgDirs ==
  {Join(Root, ImagesName), Join(Root, ImagesOld)}
    \cup {Join(Root, ImagesNumbered(k)) : k \in 1..MaxSuffix}

InitOrganize ==
  /\ variant \in {"main", "organization"}
  /\ \E S \in {T \in SUBSET (PlanFiles \cup OrgDirs) : Cardinality(T) <= MaxOrgEntries} :
       fs = [files |-> S \cap PlanFiles, dirs |-> {Root} \cup (S \cap OrgDirs)]
  /\ denied = {}
  /\ locked = {}
  /\ file_bin = <<>>
  /\ error_bin = <<>>
  /\ plan = <<>>
  /\ pc = "collect"
  /\ run = 1
  /\ idx = 1
  /\ report = start
  /\ log = <<>>
  /\ snap = NoSnap
  /\ raw_results = <<>>
  /\ files_by_extension = NoFiles
  /\ folders = <<>>

\* main(): a failed collection ends the program
CollectFilesByExtension ==
  /\ pc = "collect"
  /\ \E raw \in safe_scan(fs, Root) :
       /\ files_by_extension' = collect_files_by_extension(fs, raw)
       /\ pc' = IF collect_files_by_extension(fs, raw).error # NoError
                  THEN "failed" ELSE "organize"
  /\ UNCHANGED <<variant, fs, denied, locked, run, file_bin, error_bin, plan,
                 idx, report, log, snap, raw_results, folders>>

\* an estimated suffix is the wrapped sum INT_MAX + 1
SuffixOverflow(planned) ==
  \E k \in 1..Len(planned) : planned[k].collision_suffix = {INT_MIN}

\* the outcomes of planning the folders: the plan, or after an overflow of
\* max + 1 either the plan with the wrapped suffix or the end of the program
PlanOutcome(planned) ==
  /\ pc' \in IF SuffixOverflow(planned) THEN {"organized", "aborted"}
                                         ELSE {"organized"}
  /\ folders' = IF pc' = "aborted" THEN <<>> ELSE planned

\* create_organization_plan of main.cxx
CreateOrganizationPlanMain ==
  /\ pc = "organize" /\ variant = "main"
  /\ DOMAIN files_by_extension.groups # {}
  /\ \E raw \in safe_scan(fs, Root) :
       LET existing == get_existing_folders(fs, raw)
       IN  IF existing.error # NoError
             THEN pc' = "failed" /\ folders' = <<>>
             ELSE PlanOutcome(create_folders_with_collision_detection(
                                create_folder_groups(files_by_extension.groups),
                                existing.names, files_by_extension.groups))
  /\ UNCHANGED <<variant, fs, denied, locked, run, file_bin, error_bin, plan,
                 idx, report, log, snap, raw_results, files_by_extension>>

\* create_organization_plan of organization.cxx
CreateOrganizationPlan ==
  /\ pc = "organize" /\ variant = "organization"
  /\ DOMAIN files_by_extension.groups # {}
  /\ \E raw \in safe_scan(fs, Root) :
       LET existing == get_existing_folders(fs, raw)
       IN  IF existing.error # NoError
             THEN pc' = "failed" /\ folders' = <<>>
             ELSE PlanOutcome(create_folders(
                                create_folder_groups(files_by_extension.groups),
                                existing.names, files_by_extension.groups))
  /\ UNCHANGED <<variant, fs, denied, locked, run, file_bin, error_bin, plan,
                 idx, report, log, snap, raw_results, files_by_extension>>

\* no file was collected: the existing folders are read, then
\* assert(not files.empty()) stops a build with assertions and a build
\* without them goes on to an empty list of folders
CreateOrganizationPlanEmpty ==
  /\ pc = "organize"
  /\ DOMAIN files_by_extension.groups = {}
  /\ \E raw \in safe_scan(fs, Root) :
       IF get_existing_folders(fs, raw).error # NoError
         THEN pc' = "failed"
         ELSE pc' \in {"aborted", "organized"}
  /\ folders' = <<>>
  /\ UNCHANGED <<variant, fs, denied, locked, run, file_bin, error_bin, plan,
                 idx, report, log, snap, raw_results, files_by_extension>>

NextOrganize ==
  \/ CollectFilesByExtension
  \/ CreateOrganizationPlanMain \/ CreateOrganizationPlan
  \/ CreateOrganizationPlanEmpty

\* the organizer on any directory of the universe
SpecOrganize == InitOrganize /\ [][NextOrganize]_vars

\* every way of putting files into buckets: the two planners on any file
\* list and the two organizers on any directory
SpecBuckets ==
  (InitPlan \/ InitOrganize) /\ [][NextPlan \/ NextOrganize]_vars

Organized == pc = "organized"

\* the folder of the organization plan that lists a file
FolderOf(p) == {k \in 1..Len(folders) : p \in Range(folders[k].files)}

\* two paths carry the same extension up to the case of its letters
SameExtensionIgnoringCase(p, q) ==
  extension(p) # <<>> /\ to_lowercase(extension(p)) = to_lowercase(extension(q))

\* C13: extension matching ignores case: two files whose extensions differ
\* only in case are normalized to the same lowercase extension with its
\* period and land in the same bucket and destination folder, in the
\* planners and in the organizer
C13_CaseInsensitive ==
  /\ Planned =>
       \A i, j \in 1..Len(plan) :
         SameExtensionIgnoringCase(plan[i].source, plan[j].source) =>
           /\ OwnFile(plan[i].source).extension =
                to_lowercase(extension(plan[i].source))
           /\ OwnFile(plan[j].source).extension = OwnFile(plan[i].source).extension
           /\ plan[i].bucket_name = plan[j].bucket_name
           /\ parent_path(plan[i].destination) = parent_path(plan[j].destination)
  /\ Organized =>
       \A p, q \in fs.files :
         SameExtensionIgnoringCase(p, q) => FolderOf(p) = FolderOf(q)

NoExtensionName == <<"N", "o", " ", "E", "x", "t", "e", "n", "s", "i", "o", "n">>

\* C14: a file without an extension is placed in the no-extension bucket
\* and never in Others, by both planners and both organizers
C14_ExtensionlessBucket ==
  /\ Planned =>
       \A i \in 1..Len(plan) :
         extension(plan[i].source) = <<>> =>
           /\ plan[i].bucket_name = no_extension
           /\ plan[i].bucket_name # g_OTHERS_FOLDER_NAME
  /\ Organized =>
       \A p \in fs.files :
         extension(p) = <<>> =>
           /\ Cardinality(FolderOf(p)) = 1
           /\ \A k \in FolderOf(p) :
                /\ folders[k].base_name = NoExtensionName
                /\ folders[k].base_name # g_OTHERS_FOLDER_NAME

\* an organization plan with the file c in the No Extension folder next
\* to an Others folder
C14_Witness ==
  /\ Organized
  /\ \E k \in FolderOf(Join(Root, c_file)) : folders[k].base_name = NoExtensionName
  /\ \E k \in 1..Len(folders) : folders[k].base_name = g_OTHERS_FOLDER_NAME

\* C15: the bucket name of a planned operation is never the empty string,
\* also for a file name that ends in a period, so the destination is never
\* root / filename, the root itself taken as the bucket
C15_BucketNonEmpty ==
  Planned =>
    \A i \in 1..Len(plan) :
      /\ plan[i].bucket_name # <<>>
      /\ plan[i].destination # Join(Root, filename(plan[i].source))

\* the place of an element in a sequence without repetitions
Pos(s, x) == CHOOSE k \in 1..Len(s) : s[k] = x

\* a stable sort by extension: the sorted arrangement in which files of
\* equal extension keep their input order
StableOrder(files) ==
  CHOOSE s \in sort_by_extension(files) :
    \A i, j \in 1..Len(s) :
      (i < j /\ s[i].extension = s[j].extension) => Pos(files, s[i]) < Pos(files, s[j])

\* the decorated input of the planner at hand
Decorated(raw_files) ==
  IF variant = "fs_ops" THEN decorate_with_extensions_fs_ops(raw_files)
  ELSE decorate_with_extensions(raw_files)

\* C16: the plan lists the files in the order of a stable sort by
\* normalized extension: non-decreasing extension, files of equal
\* extension in their input order, so the plan is a function of the input
C16_StableOrder ==
  Planned =>
    /\ Len(plan) = Len(file_bin)
    /\ \A i \in 1..Len(plan) :
         plan[i].source = StableOrder(Decorated(file_bin))[i].path

\* the names of the folders the target directory holds
ExistingNames == {filename(d) : d \in fs.dirs \ {Root}}

\* the display name "{base} ({k})"
Numbered(base, k) == get_resolved_name(Folder(base, {k}, "regular", <<>>, <<>>))

\* the existing names that begin with a base name
Beginning(base) == {x \in ExistingNames : starts_with(x, base)}

\* C17: when base name B is an existing folder the estimated suffix is 1,
\* when B and "B (1)" exist it is 2, and when B and "B (1)" .. "B (k)" exist
\* it is k + 1
C17_NextAfterRun ==
  Organized =>
    \A f \in 1..Len(folders) :
      \A k \in 0..Cardinality(ExistingNames) :
        Beginning(folders[f].base_name) =
            {folders[f].base_name}
              \cup {Numbered(folders[f].base_name, j) : j \in 1..k}
          => folders[f].collision_suffix = {k + 1}

\* Images, "Images (1)" and "Images (2)" exist and the Images folder of
\* the plan of main.cxx carries the suffix 3
C17_Witness ==
  /\ Organized /\ variant = "main"
  /\ ExistingNames = {ImagesName, Numbered(ImagesName, 1), Numbered(ImagesName, 2)}
  /\ \E f \in 1..Len(folders) :
       folders[f].base_name = ImagesName /\ folders[f].collision_suffix = {3}

\* the suffixes k for which "{base} ({k})" is an existing folder
UsedSuffixes(base) ==
  {k \in 1..(MaxSuffix + 1) : Numbered(base, k) \in ExistingNames}

PlainNumbering(base) ==
  \A x \in ExistingNames :
    (\/ scn_scan(x, SuffixFormat(base), 0).ok
     \/ (starts_with(x, base)
           /\ MatchSuffixPattern(SubSeq(x, Len(base) + 1, Len(x))) # {}))
      => \E k \in 1..(MaxSuffix + 1) : x = Numbered(base, k)

C19_RegularFilesOnly ==
  pc = "plan" => \A k \in 1..Len(file_bin) : is_regular_file(fs, file_bin[k])

\* the raw results of the last scan that collect_files keeps as files:
\* every entry in fs_ops.cxx, the regular files in scanner.cxx
KeptValues ==
  SelectSeqBy(raw_results,
              {x \in Range(raw_results) :
                 x.has_value /\ (variant = "fs_ops" \/ is_regular_file(fs, x.path))})

RawErrors == SelectSeqBy(raw_results, {x \in Range(raw_results) : ~x.has_value})

\* the planner accepts the file list at hand
PlanEnabled ==
  IF variant = "fs_ops" THEN generate_plan_fs_ops(file_bin, Root) # {}
  ELSE generate_plan(file_bin, Root) # {}

collect_from(f, target, raw) ==
  IF ~exists(f, target)
    THEN [state |-> "target_not_found", files |-> <<>>, errors |-> <<>>]
  ELSE IF raw = <<>>
    THEN [state |-> "no_files", files |-> <<>>, errors |-> <<>>]
  ELSE [state  |-> NoError,
        files  |-> collect_files(f, raw).file_bin,
        errors |-> collect_files(f, raw).error_bin]

CollectFrom ==
  /\ pc = "scan" /\ variant = "new_scanner"
  /\ \E raw \in safe_scan(fs, Root) :
       /\ raw_results' = raw
       /\ file_bin' = collect_from(fs, Root, raw).files
       /\ error_bin' = collect_from(fs, Root, raw).errors
       /\ pc' = IF collect_from(fs, Root, raw).state = NoError THEN "scanned"
                ELSE collect_from(fs, Root, raw).state
  /\ UNCHANGED <<variant, fs, denied, locked, run, plan, idx, report, log, snap>>
  /\ UNCHANGED <<files_by_extension, folders>>

\* the roots of the pipeline, handed to the scanner object
InitNewScanner ==
  /\ variant = "new_scanner"
  /\ \E S \in RootContents :
       fs = [files |-> (S \cap RootFiles)
                        \cup (IF Join(Root, sub) \in S
                                THEN {Join(Join(Root, sub), a_png)} ELSE {}),
             dirs  |-> {Root} \cup (S \ RootFiles)]
  /\ denied = {}
  /\ locked = {}
  /\ plan = <<>>
  /\ pc = "scan"
  /\ run = 1
  /\ file_bin = <<>>
  /\ error_bin = <<>>
  /\ idx = 1
  /\ report = start
  /\ log = <<>>
  /\ snap = NoSnap
  /\ raw_results = <<>>
  /\ files_by_extension = NoFiles
  /\ folders = <<>>

\* every entry point of the repository on its directories: the two
\* pipelines, the scanner object and the two organizers
SpecAll ==
  (InitPipe \/ InitNewScanner \/ InitOrganize)
    /\ [][NextPipe \/ CollectFrom \/ NextOrganize]_vars

\* the directory holds no entry at all
EmptyRoot == Entries(fs, Root) = {}

\* C21: an empty input is a valid end and not an error: scanning an empty
\* directory reports no error, the plan and the list of folders are empty,
\* no assertion stops the program, and executing the empty plan returns a
\* report with processed_count = 0, success_count = 0 and no failure
C21_EmptyIsValid ==
  EmptyRoot =>
    /\ error_bin = <<>>
    /\ files_by_extension.error = NoError
    /\ pc \notin {"failed", "aborted", "no_files", "target_not_found"}
    /\ plan = <<>>
    /\ folders = <<>>
    /\ Done => report = start

\* the kinds of the filesystem calls of operation i, in the order made
KindsOf(i) ==
  LET own == SelectSeqBy(log, {e \in Range(log) : e.op = i})
  IN  [k \in 1..Len(own) |-> own[k].kind]

CallOrder == <<"mkdir", "probe", "rename">>

\* C22: operations are applied one at a time in the order of the plan: no
\* call of a later operation precedes a call of an earlier one or is made
\* before the earlier one has finished, and a non-skipped operation
\* creates the parent directory, then probes for collisions, then renames
C22_PlanOrder ==
  /\ \A j, k \in 1..Len(log) : j < k => log[j].op <= log[k].op
  /\ \A k \in 1..Len(log) : log[k].op \in Processed
  /\ \A i \in Processed :
       ~IsSkip(i) =>
         /\ KindsOf(i) # <<>>
         /\ Len(KindsOf(i)) <= 3
         /\ KindsOf(i) = SubSeq(CallOrder, 1, Len(KindsOf(i)))

\* three operations have run, the first and the last with all three calls
C22_Witness ==
  /\ Done /\ Len(plan) = 3
  /\ KindsOf(1) = CallOrder
  /\ KindsOf(3) = CallOrder

\* the calls the step at hand adds to the log
NewCalls == SubSeq(log', Len(log) + 1, Len(log'))

FailureOf(i, ec) ==
  [source |-> plan[i].source, destination |-> plan[i].destination, error |-> ec]

\* a step of the fold on a non-skipped operation: a failed creation of
\* the parent directory is reported with its error code, no rename is made
\* and the source stays where it is; a failed rename after a successful
\* creation is reported with the error code of the rename
C23_Step ==
  (pc = "exec" /\ idx <= Len(plan) /\ ~IsSkip(idx) /\ idx' = idx + 1) =>
    /\ NewCalls # <<>> /\ NewCalls[1].kind = "mkdir"
    /\ NewCalls[1].err # NoError =>
         /\ \A k \in 1..Len(NewCalls) : NewCalls[k].kind # "rename"
         /\ report'.failures = Append(report.failures, FailureOf(idx, NewCalls[1].err))
         /\ report'.success_count = report.success_count
         /\ (plan[idx].source \in fs.files) = (plan[idx].source \in fs'.files)
         /\ (plan[idx].source \in fs.dirs) = (plan[idx].source \in fs'.dirs)
    /\ NewCalls[1].err = NoError =>
         \A k \in 1..Len(NewCalls) :
           (NewCalls[k].kind = "rename" /\ NewCalls[k].err # NoError) =>
             /\ report'.failures = Append(report.failures, FailureOf(idx, NewCalls[k].err))
             /\ report'.success_count = report.success_count

\* C23: if creating the destination's parent directory fails, the
\* operation fails with that error code and no rename is attempted; if the
\* creation succeeds and the rename fails, the operation fails with the
\* error code of the rename
C23_FailureCodes == [][C23_Step]_vars

\* one operation failed in the creation of its directory and another in
\* its rename, and both are in the report
C23_Witness ==
  /\ \E j \in 1..Len(log) : log[j].kind = "mkdir" /\ log[j].err # NoError
  /\ \E j \in 1..Len(log) : log[j].kind = "rename" /\ log[j].err # NoError
  /\ Len(report.failures) = 2

(***************************************************************************)
(* Execution order.  The plan is run from a remembered filesystem, and the *)
(* fold of execute_plan is computed on every other order of the same       *)
(* operations from that filesystem.  The universe adds a regular file      *)
(* named png in the root: it stands where the png folder has to be made.   *)
(***************************************************************************)
\* the extensionless file r/png goes to the folder of extensionless files
OpP == Operation(PngDir, Join(Join(Root, no_extension), png), no_extension)

OrderPlans ==
  {s \in UNION {[1..n -> OpUniverse \cup {OpP}] : n \in 0..MaxOps} : IsInjective(s)}

OrderFs ==
  {InitialFs(occ, missing) : occ \in {{}, {0}},
                             missing \in {{}, {Join(Root, b_py)}}}
    \cup {[files |-> SourceFiles \cup {PngDir}, dirs |-> {Root, Join(Root, sub)}]}

InitOrder ==
  /\ variant \in {"fs_ops", "modular"}
  /\ fs \in OrderFs
  /\ denied = {}
  /\ locked = {}
  /\ plan \in OrderPlans
  /\ pc = "exec"
  /\ run = 1
  /\ file_bin = <<>>
  /\ error_bin = <<>>
  /\ idx = 1
  /\ report = start
  /\ log = <<>>
  /\ snap = [files |-> fs.files, dirs |-> fs.dirs, plan |-> plan,
             report |-> start, error_bin |-> <<>>]
  /\ raw_results = <<>>
  /\ files_by_extension = NoFiles
  /\ folders = <<>>

\* execute_plan from a remembered filesystem
SpecOrder == InitOrder /\ [][NextExec]_vars

\* one step of the fold in either executor
FoldStep(v, f, op, rep) ==
  IF v = "modular"
    THEN [fs     |-> process_operation(f, op).fs,
          report |-> accumulate_reports(rep, process_operation(f, op).result)]
    ELSE [fs |-> execute(f, op, rep).fs, report |-> execute(f, op, rep).report]

\* what the report says of the operation that took it from before to after
OutcomeBetween(before, after) ==
  IF after.success_count > before.success_count THEN "succeeded"
  ELSE IF failure_count(after) > failure_count(before) THEN "failed"
  ELSE "skipped"

\* the fold over the operations p: the final report and each outcome
RECURSIVE Fold(_, _, _, _)
Fold(v, f, p, rep) ==
  IF p = <<>> THEN [report |-> rep, outcomes |-> <<>>]
  ELSE LET s    == FoldStep(v, f, p[1], rep)
           rest == Fold(v, s.fs, Tail(p), s.report)
       IN  [report   |-> rest.report,
            outcomes |-> <<OutcomeBetween(rep, s.report)>> \o rest.outcomes]

RunOf(p) == Fold(variant, [files |-> snap.files, dirs |-> snap.dirs], p, start)

\* the outcome of operation op when the operations are run in the order p
OutcomeIn(p, op) == RunOf(p).outcomes[CHOOSE k \in 1..Len(p) : p[k] = op]

Counts(r) ==
  <<r.processed_count, r.success_count, failure_count(r), skipped_count(r)>>

\* C24: the operations of a plan are independent of the order they are
\* executed in: in every order of the same operations on the same initial
\* filesystem each operation has the same outcome, and the processed,
\* success, failure and skipped counts of the report are the same
C24_OrderIndependent ==
  Done =>
    /\ RunOf(plan).report = report
    /\ \A q \in Orderings(Range(plan)) :
         /\ \A op \in Range(plan) : OutcomeIn(q, op) = OutcomeIn(plan, op)
         /\ Counts(RunOf(q).report) = Counts(report)

\* the same, for the executor of executor.cxx alone
C24_Modular == variant = "modular" => C24_OrderIndependent

\* the same, for the executor of fs_ops.cxx alone
C24_FsOps == variant = "fs_ops" => C24_OrderIndependent

(***************************************************************************)
(* Execution beside another process.  The executor blocks in each          *)
(* filesystem call, so another process can act between the existence probe *)
(* of resolve_collision and the rename.  An operation is therefore run in  *)
(* two steps, the calls up to the probe and the rename with the report,    *)
(* and the other process creates regular files in the png folder.  Its     *)
(* acts are recorded in the log with kind "external".                      *)
(***************************************************************************)
\* the probe of the operation at hand has been made, its rename has not
Pending ==
  \E k \in 1..Len(log) : log[k].op = idx /\ log[k].kind = "probe"

\* the path the probe of the operation at hand returned
Probed == log[CHOOSE k \in 1..Len(log) : log[k].op = idx /\ log[k].kind = "probe"].dst

\* executor.cxx: process_operation up to the argument of safe_fs::rename
ResolveModular ==
  /\ pc = "exec" /\ variant = "modular" /\ idx <= Len(plan) /\ ~Pending
  /\ LET op == plan[idx]
         d  == ensure_directory(fs, parent_path(op.destination))
         mk == MkdirEvent(fs, parent_path(op.destination), d)
     IN  IF op.source = op.destination
           THEN /\ report' = accumulate_reports(report, create_skipped)
                /\ idx' = idx + 1
                /\ UNCHANGED <<fs, log>>
         ELSE IF d.err # NoError
           THEN /\ fs' = d.fs
                /\ log' = log \o Stamp(<<mk>>, idx)
                /\ report' = accumulate_reports(report, create_failure(op, d.err))
                /\ idx' = idx + 1
         ELSE /\ fs' = d.fs
              /\ log' = log \o Stamp(<<mk, ProbeEvent(d.fs, op.destination)>>, idx)
              /\ UNCHANGED <<report, idx>>
  /\ UNCHANGED <<variant, denied, locked, pc, run, file_bin, error_bin, plan, snap>>
  /\ UNCHANGED <<raw_results, files_by_extension, folders>>

\* fs_ops.cxx: execute up to the call of the and_then callback
ResolveFsOps ==
  /\ pc = "exec" /\ variant = "fs_ops" /\ idx <= Len(plan) /\ ~Pending
  /\ LET op == plan[idx]
         d  == ensure_directory(fs, parent_path(op.destination))
         mk == MkdirEvent(fs, parent_path(op.destination), d)
     IN  /\ fs' = d.fs
         /\ log' = log \o Stamp(<<mk, ProbeEvent(d.fs, op.destination)>>, idx)
         /\ IF d.err # NoError
              THEN /\ report' = IF op.source = op.destination
                                  THEN with_processed(MovedFrom(report))
                                  ELSE with_failure(with_processed(report),
                                                    [source |-> op.source,
                                                     destination |-> op.destination,
                                                     error |-> d.err])
                   /\ idx' = idx + 1
              ELSE UNCHANGED <<report, idx>>
  /\ UNCHANGED <<variant, denied, locked, pc, run, file_bin, error_bin, plan, snap>>
  /\ UNCHANGED <<raw_results, files_by_extension, folders>>

\* the report after the rename of the operation at hand
ReportAfterRename(op, r) ==
  IF variant = "modular"
    THEN accumulate_reports(report, IF r.err = NoError THEN create_success
                                    ELSE create_failure(op, r.err))
  ELSE IF op.source = op.destination THEN with_processed(MovedFrom(report))
  ELSE IF r.err = NoError THEN with_success(with_processed(report))
  ELSE with_failure(with_processed(report),
                    [source |-> op.source, destination |-> op.destination,
                     error |-> r.err])

\* mutant: the rename goes to the nominal destination
MoveProbed_nominal ==
  /\ pc = "exec" /\ idx <= Len(plan) /\ Pending
  /\ LET op == plan[idx]
         r  == rename(fs, op.source, op.destination)
     IN  /\ fs' = r.fs
         /\ log' = log \o Stamp(<<RenameEvent(fs, op.source, op.destination, r)>>, idx)
         /\ report' = ReportAfterRename(op, r)
  /\ idx' = idx + 1
  /\ UNCHANGED <<variant, denied, locked, pc, run, file_bin, error_bin, plan, snap>>
  /\ UNCHANGED <<raw_results, files_by_extension, folders>>

\* safe_fs::rename(op.source, probed path) and the report of the operation
MoveProbed ==
  /\ pc = "exec" /\ idx <= Len(plan) /\ Pending
  /\ LET op == plan[idx]
         r  == rename(fs, op.source, Probed)
     IN  /\ fs' = r.fs
         /\ log' = log \o Stamp(<<RenameEvent(fs, op.source, Probed, r)>>, idx)
         /\ report' = ReportAfterRename(op, r)
  /\ idx' = idx + 1
  /\ UNCHANGED <<variant, denied, locked, pc, run, file_bin, error_bin, plan, snap>>
  /\ UNCHANGED <<raw_results, files_by_extension, folders>>

\* the paths the other process may create
ExternalPaths == {Family(0), Family(1), Family(2)}

\* another process creates a regular file in an existing folder
External ==
  /\ pc = "exec" /\ idx <= Len(plan)
  /\ \E p \in ExternalPaths :
       /\ ~exists(fs, p) /\ parent_path(p) \in fs.dirs
       /\ fs' = [fs EXCEPT !.files = @ \cup {p}]
       /\ log' = log \o Stamp(<<Event("external", <<>>, p, FALSE, NoError)>>, idx)
  /\ UNCHANGED <<variant, denied, locked, pc, run, file_bin, error_bin, plan,
                 idx, report, snap, raw_results, files_by_extension, folders>>

RacePlans ==
  {s \in UNION {[1..n -> {OpA, OpS, OpK}] : n \in 0..MaxOps} : IsInjective(s)}

InitRace ==
  /\ variant \in {"fs_ops", "modular"}
  /\ \E occ \in Occupancies : fs = InitialFs(occ, {})
  /\ denied \in {{}, {PngDir}}
  /\ locked = {}
  /\ plan \in RacePlans
  /\ pc = "exec"
  /\ run = 1
  /\ file_bin = <<>>
  /\ error_bin = <<>>
  /\ idx = 1
  /\ report = start
  /\ log = <<>>
  /\ snap = NoSnap
  /\ raw_results = <<>>
  /\ files_by_extension = NoFiles
  /\ folders = <<>>

NextRace == ResolveModular \/ ResolveFsOps \/ MoveProbed \/ External \/ Return

\* execute_plan while another process creates files
SpecRace == InitRace /\ [][NextRace]_vars

\* the probe that belongs to the rename at position k of the log
ProbeOf(k) ==
  CHOOSE j \in 1..k : log[j].op = log[k].op /\ log[j].kind = "probe"

\* the probe found every candidate taken and fell back to the destination
CapExhausted(j) == log[j].dst = log[j].src /\ log[j].existed

\* the other process acted between positions j and k of the log
ExternalBetween(j, k) == \E m \in (j + 1)..(k - 1) : log[m].kind = "external"

\* C25: collision resolution is check-then-act: the rename goes to the
\* path the probe returned, and when no other process acted between the
\* probe and the rename and the probe cap was not exhausted, that path does
\* not exist at the moment of the rename
C25_CheckThenAct ==
  \A k \in 1..Len(log) :
    log[k].kind = "rename" =>
      /\ log[k].dst = log[ProbeOf(k)].dst
      /\ (~CapExhausted(ProbeOf(k)) /\ ~ExternalBetween(ProbeOf(k), k))
           => ~log[k].existed

\* the race: the probe returned a free path, the other process created it,
\* and the rename went to the path that now exists and replaced the file
C25_Witness ==
  \E k \in 1..Len(log) :
    /\ log[k].kind = "rename" /\ log[k].existed /\ log[k].err = NoError
    /\ ~log[ProbeOf(k)].existed
    /\ \E m \in (ProbeOf(k) + 1)..(k - 1) :
         log[m].kind = "external" /\ log[m].dst = log[k].dst

(***************************************************************************)
(* Operations that meet in one place.  Plans as the planner builds them    *)
(* (no operation moves a file onto itself) are run with exclusive use of   *)
(* the tree and nothing refused: OpA and OpS have the same nominal         *)
(* destination, OpA and OpD only the same destination folder.  The png     *)
(* folder starts with up to 99 of the 100 names of the a.png family taken. *)
(***************************************************************************)
d_png == <<"d", ".", "p", "n", "g">>

OpD == Operation(Join(Root, d_png), Join(PngDir, d_png), png)

SharedPlans ==
  {s \in UNION {[1..n -> {OpA, OpS, OpD, OpB}] : n \in 0..MaxOps} : IsInjective(s)}

\* the names of the a.png family taken before the run
SharedOccupancies ==
  {{}, {0}, {0, 1}, {0, 2}, 1..(max_candidate_index - 2),
   0..(max_candidate_index - 3), 0..(max_candidate_index - 2)}

InitShared ==
  /\ variant \in {"fs_ops", "modular"}
  /\ \E occ \in SharedOccupancies :
       fs = [InitialFs(occ, {}) EXCEPT !.files = @ \cup {Join(Root, d_png)}]
  /\ denied = {}
  /\ locked = {}
  /\ plan \in SharedPlans
  /\ pc = "exec"
  /\ run = 1
  /\ file_bin = <<>>
  /\ error_bin = <<>>
  /\ idx = 1
  /\ report = start
  /\ log = <<>>
  /\ snap = [files |-> fs.files, dirs |-> fs.dirs, plan |-> plan,
             report |-> start, error_bin |-> <<>>]
  /\ raw_results = <<>>
  /\ files_by_extension = NoFiles
  /\ folders = <<>>

\* execute_plan with exclusive use of the tree
SpecShared == InitShared /\ [][NextExec]_vars

CallOf(i, kind) == CHOOSE e \in EventsOf(i) : e.kind = kind

\* the path the file of operation i was renamed to
FinalPath(i) == CallOf(i, "rename").dst

\* the numbered candidates of a destination
Candidate(target, n) == make_candidate_path(build_candidate(target), n)

\* the numbered candidates of a destination that existed before the run
NumberedBefore(target) ==
  {n \in 1..(max_candidate_index - 1) :
     Candidate(target, n) \in snap.files \cup snap.dirs}

\* operations i and j, i first, have the same nominal destination
SameDestination(i, j) ==
  i < j /\ plan[i].destination = plan[j].destination
        /\ plan[i].source # plan[j].source

\* operations i and j, i first, share only the destination folder
SameFolder(i, j) ==
  /\ i < j /\ plan[i].destination # plan[j].destination
  /\ parent_path(plan[i].destination) = parent_path(plan[j].destination)

\* both were moved, to two paths, the second to a path that did not exist,
\* the first free numbered candidate; both files are there at the end
TwoDistinctPaths(i, j) ==
  /\ Moved(i) /\ Moved(j)
  /\ FinalPath(i) # FinalPath(j)
  /\ ~CallOf(j, "rename").existed
  /\ \E n \in 1..(max_candidate_index - 1) :
       /\ FinalPath(j) = Candidate(plan[j].destination, n)
       /\ j = idx - 1 =>
            \A m \in 1..(n - 1) : exists(fs, Candidate(plan[j].destination, m))
  /\ Done => {FinalPath(i), FinalPath(j)} \subseteq fs.files

\* sharing a folder: both were moved, and the second creation of the
\* folder found it existing and succeeded
FolderShared(i, j) ==
  /\ Moved(i) /\ Moved(j)
  /\ CallOf(j, "mkdir").existed /\ CallOf(j, "mkdir").err = NoError

Exhausted(i) ==
  \E e \in EventsOf(i) : e.kind = "probe" /\ e.dst = e.src /\ e.existed

ImagesLast == ImagesName \o <<" ", "(">> \o IntMaxDigits \o <<")">>

ImagesWrapped == ImagesName \o <<" ", "(", "-">> \o IntMinDigits \o <<")">>

SuffixDirs == OrgDirs \cup {Join(Root, ImagesLast), Join(Root, ImagesWrapped)}

SuffixFiles == {Join(Root, a_png), Join(Root, A_PNG), Join(Root, b_py)}

InitSuffix ==
  /\ variant \in {"main", "organization"}
  /\ \E S \in {T \in SUBSET (SuffixFiles \cup SuffixDirs) : Cardinality(T) <= MaxOrgEntries} :
       fs = [files |-> S \cap SuffixFiles, dirs |-> {Root} \cup (S \cap SuffixDirs)]
  /\ denied = {}
  /\ locked = {}
  /\ file_bin = <<>>
  /\ error_bin = <<>>
  /\ plan = <<>>
  /\ pc = "collect"
  /\ run = 1
  /\ idx = 1
  /\ report = start
  /\ log = <<>>
  /\ snap = NoSnap
  /\ raw_results = <<>>
  /\ files_by_extension = NoFiles
  /\ folders = <<>>

\* the organizer on directories with folders numbered up to the end of int
SpecSuffix == InitSuffix /\ [][NextOrganize]_vars

\* C27: the estimator returns a suffix if and only if the base name of the
\* folder is among the existing folder names, and the resolved name
\* "{base} ({k})" of a returned suffix k is not the name of an existing
\* folder, for every set of existing folder names
C27_SuffixAvoidsExisting ==
  Organized =>
    \A f \in 1..Len(folders) :
      /\ (folders[f].collision_suffix # {}) = (folders[f].base_name \in ExistingNames)
      /\ folders[f].collision_suffix # {} =>
           get_resolved_name(folders[f]) \notin ExistingNames

\* the same for the sets of names in which no folder is numbered INT_MAX
C27_BelowIntMax ==
  ImagesLast \notin ExistingNames => C27_SuffixAvoidsExisting

\* a suffix was estimated past existing numbered folders
C27_Estimated ==
  /\ Organized
  /\ {ImagesName, ImagesNumbered(2), ImagesOld} \subseteq ExistingNames
  /\ \E f \in 1..Len(folders) : folders[f].collision_suffix = {3}

(***************************************************************************)
(* The organization plan as a partition of the collected files.            *)
(***************************************************************************)
\* how often a path occurs in the files lists of the folders
RECURSIVE Occurrences(_, _)
Occurrences(p, n) ==
  IF n = 0 THEN 0
  ELSE Occurrences(p, n - 1)
         + Cardinality({k \in 1..Len(folders[n].files) : folders[n].files[k] = p})

\* the number of files in the first n folders
RECURSIVE FilesInFolders(_)
FilesInFolders(n) ==
  IF n = 0 THEN 0 ELSE FilesInFolders(n - 1) + Len(folders[n].files)

\* the number of files collected under the first n extension keys
RECURSIVE FilesInGroups(_)
FilesInGroups(n) ==
  IF n = 0 THEN 0
  ELSE FilesInGroups(n - 1)
         + Len(files_by_extension.groups[Keys(files_by_extension.groups)[n]])

\* C28: the folders of an organization plan partition the collected
\* files: each file is in the files list of exactly one folder, the one
\* named get_folder_name of its extension key, the folders hold as many
\* files as were collected, and no folder has an empty files list
C28_FoldersPartition ==
  (Organized /\ DOMAIN files_by_extension.groups # {}) =>
    /\ \A key \in DOMAIN files_by_extension.groups :
         \A p \in Range(files_by_extension.groups[key]) :
           /\ Occurrences(p, Len(folders)) = 1
           /\ \E k \in 1..Len(folders) :
                /\ FolderOf(p) = {k}
                /\ folders[k].base_name = get_folder_name(key)
    /\ FilesInFolders(Len(folders)) =
         FilesInGroups(Cardinality(DOMAIN files_by_extension.groups))
    /\ \A k \in 1..Len(folders) : folders[k].files # <<>>

\* a plan of several folders, one of them with the files of two keys
C28_Witness ==
  /\ Organized /\ Len(folders) >= 2
  /\ \E k \in 1..Len(folders) :
       Len(folders[k].extensions) >= 2 /\ Len(folders[k].files) >= 2

\* C29: the folder that holds the files without extension, named
\* "No Extension", has category no_extension, the folder "Others" has
\* category others, and every other folder has category regular
C29_FolderCategories ==
  Organized =>
    \A k \in 1..Len(folders) :
      folders[k].category =
        IF folders[k].base_name = NoExtensionFolder THEN "no_extension"
        ELSE IF folders[k].base_name = g_OTHERS_FOLDER_NAME THEN "others"
        ELSE "regular"

\* the same for the folders other than "No Extension"
C29_OtherFolders ==
  Organized =>
    \A k \in 1..Len(folders) :
      folders[k].base_name # NoExtensionFolder =>
        folders[k].category =
          IF folders[k].base_name = g_OTHERS_FOLDER_NAME THEN "others"
          ELSE "regular"

\* C30: a file that has an extension is never placed in the no-extension
\* bucket: the bucket name of its operation is derived from its extension
\* (lower case, without the dot) and differs from the name of the bucket
\* of files without extension, in every planner variant
C30_ExtensionNotInNoExtension ==
  Planned =>
    \A i \in 1..Len(plan) :
      has_extension(plan[i].source) =>
        /\ plan[i].bucket_name = Substr1(to_lowercase(extension(plan[i].source)))
        /\ plan[i].bucket_name # no_extension

\* the same for the planner of fs_ops.cxx alone
C30_FsOps == variant = "fs_ops" => C30_ExtensionNotInNoExtension
====
